---- MODULE Spec2Model ----
(***************************************************************************)
(* A model of day-planner-ai: the Task Store (tools/task_manager.py) and   *)
(* the Day Plan Store (tools/day_planner.py).  Every public method is one  *)
(* action; `call` records the method and its arguments, `ret` what it      *)
(* returned or raised.                                                     *)
(***************************************************************************)
EXTENDS Integers, Sequences, FiniteSets, TLC

VARIABLES
    tasks,      \* TaskManager.tasks: the list of Task records
    tasksFile,  \* the content of TaskManager.file_path
    plans,      \* DayPlanner.plans: dict date -> DayPlan
    plansFile,  \* the content of DayPlanner.plans_file
    now,        \* the last value datetime.now() returned
    today,      \* the day date.today() is in (a day number)
    nextUuid,   \* how many uuid4() values have been drawn
    created,    \* history: the ids create_task has returned
    call,       \* the last call: its method and arguments
    ret,        \* what the last call returned or raised
    disk,       \* what the file system does with the next write
    started,    \* the store instances the process holds: "none", "tasks", "both"
    replaced    \* history: whether the last call put a plan in place of another

vars == <<tasks, tasksFile, plans, plansFile, now, today, nextUuid, created, call, ret, disk, started, replaced>>

----------------------------------------------------------------------------
(* Bounds of the model. *)

\* create_task is called at most MaxTasks times
MaxTasks == 2
\* a day plan holds at most MaxSlots time slots
MaxSlots == 2
\* the clock takes the values 0..MaxClock
MaxClock == 1
\* the days are 1..MaxDay
MaxDay == 2

(* Constants of the program. *)

MinTitleLen == 1
MaxTitleLen == 200
MaxDescriptionLen == 1000
MinPriority == 1
MaxPriority == 5
DefaultPriority == 3

----------------------------------------------------------------------------
(* Python values.  An Optional[T] is None or Some(v). *)

None == << >>
Some(v) == <<v>>
Val(o) == o[1]

\* bool(x) of an Optional[str]: None and "" are falsy
Truthy(o) == o # None /\ Val(o) # ""

\* a title of 201 characters
LongTitle == "xxxxxxxxxxxxxxxxxxxxxxxxxxxxxxxxxxxxxxxxxxxxxxxxxxxxxxxxxxxxxxxxxxxxxxxxxxxxxxxxxxxxxxxxxxxxxxxxxxxxxxxxxxxxxxxxxxxxxxxxxxxxxxxxxxxxxxxxxxxxxxxxxxxxxxxxxxxxxxxxxxxxxxxxxxxxxxxxxxxxxxxxxxxxxxxxxxxxxxxxxxxxxxxxxxxxx"

\* len(s) of the strings the model uses
StrLen(s) == CASE s = "" -> 0
               [] s = LongTitle -> 201
               [] OTHER -> 1

\* str(uuid.uuid4()): the n-th value drawn; no two draws are equal
Uuid4(n) == <<"t1", "t2", "t3", "t4", "t5", "t6">>[n]

\* the values datetime.now() can return after it returned n: the clock never
\* runs backwards, and two reads can fall in the same tick
ClockReads(n) == {t \in n..MaxClock : t <= n + 1}

\* date.today().isoformat() on day d
IsoDate(d) == <<"2026-11-01", "2026-11-02", "2026-11-03", "2026-11-04">>[d]

Statuses == {"pending", "in_progress", "completed"}

----------------------------------------------------------------------------
(* What a call returns or raises. *)

\* a record (a Task, a DayPlan, a TimeSlot, a summary)
Returns(v) == [kind |-> "return", val |-> v]
\* a bool
ReturnsBool(b) == [kind |-> "return", flag |-> b]
\* a list
ReturnsList(s) == [kind |-> "return", list |-> s]
\* an Optional
ReturnsOpt(o) == [kind |-> "return", opt |-> o]
\* an exception, by the name of its class
Raises(e) == [kind |-> "raise", error |-> e]

----------------------------------------------------------------------------
(* Task, and the Task Store. *)

\* Task without the bounds of priority: Field(default=3)
TaskValidAnyPriority(title, description, priority, estimate_hours) ==
    /\ StrLen(title) >= MinTitleLen
    /\ StrLen(title) <= MaxTitleLen
    /\ (description # None => StrLen(Val(description)) <= MaxDescriptionLen)
    /\ (estimate_hours # None => Val(estimate_hours) > 0)

\* the field constraints of Task, checked when a Task is constructed
TaskValid(title, description, priority, estimate_hours) ==
    /\ StrLen(title) >= MinTitleLen
    /\ StrLen(title) <= MaxTitleLen
    /\ (description # None => StrLen(Val(description)) <= MaxDescriptionLen)
    /\ priority >= MinPriority
    /\ priority <= MaxPriority
    /\ (estimate_hours # None => Val(estimate_hours) > 0)

\* Task with `id: str = Field(default=str(uuid.uuid4()))`: the default is drawn
\* once, when the class is defined, and every Task shares it
TaskSharedDefaultId(id, title, description, priority, estimate_hours, due_date, c, u) ==
    [id |-> Uuid4(1),
     title |-> Some(title),
     description |-> description,
     status |-> Some("pending"),
     priority |-> Some(priority),
     estimate_hours |-> estimate_hours,
     due_date |-> due_date,
     created_at |-> c,
     updated_at |-> u]

\* Task(title=..., ...): id, created_at and updated_at by their default factories
Task(id, title, description, priority, estimate_hours, due_date, c, u) ==
    [id |-> id,
     title |-> Some(title),
     description |-> description,
     status |-> Some("pending"),
     priority |-> Some(priority),
     estimate_hours |-> estimate_hours,
     due_date |-> due_date,
     created_at |-> c,
     updated_at |-> u]

\* datetime.isoformat(), as model_dump(mode="json") writes a datetime
IsoFormat(t) == [iso |-> t]
\* datetime.fromisoformat(), as pydantic reads a datetime
FromIso(j) == j.iso

\* task.model_dump(mode="json")
TaskDump(t) == [t EXCEPT !.created_at = IsoFormat(@), !.updated_at = IsoFormat(@)]

\* Task(**task) on one record of the file: pydantic checks every field
DumpValid(d) ==
    /\ d.title # None
    /\ d.status # None
    /\ Val(d.status) \in Statuses
    /\ d.priority # None
    /\ TaskValid(Val(d.title), d.description, Val(d.priority), d.estimate_hours)

\* the Task that Task(**task) builds from a record of the file
TaskLoad(d) == [d EXCEPT !.created_at = FromIso(@), !.updated_at = FromIso(@)]

\* A file is [exists, form, data].  form says what open() and json.load() make
\* of it: "json" is a JSON value of the kind the store writes (data holds it),
\* "other" is a JSON value of another kind (an object where the task file has a
\* list, a list where the plans file has an object), "garbage" is no JSON at all
\* (an empty or truncated file too), "unreadable" is a file open() may not read,
\* "invalid" is a plans file with a record that DayPlan(**plan_data) rejects.
NoTasksFile == [exists |-> FALSE, form |-> "garbage", data |-> << >>]

\* the file a write leaves that failed after open(path, "w") truncated it
TruncatedTasksFile == [exists |-> TRUE, form |-> "garbage", data |-> << >>]

\* _save_tasks when the write succeeds: the file rewritten in full
SaveTasks(ts) == [exists |-> TRUE, form |-> "json", data |-> [i \in 1..Len(ts) |-> TaskDump(ts[i])]]

\* _save_tasks: the file it leaves.  An OSError is caught and printed: raised
\* by makedirs or open() it leaves the file as it was, raised while writing it
\* leaves the file truncated
WriteTasks(file, ts, dk) ==
    CASE dk = "ok" -> SaveTasks(ts)
      [] dk = "denied" -> file
      [] dk = "full" -> TruncatedTasksFile

\* _load_tasks on an existing file: the list it leaves in self.tasks, or the
\* exception that leaves __init__
LoadTasks(file) ==
    CASE file.form = "unreadable" -> Raises("PermissionError")
      [] file.form = "garbage" -> ReturnsList(<< >>)
      [] file.form = "other" -> Raises("TypeError")
      [] file.form = "json" ->
           IF \A i \in 1..Len(file.data) : DumpValid(file.data[i])
           THEN ReturnsList([i \in 1..Len(file.data) |-> TaskLoad(file.data[i])])
           ELSE Raises("ValidationError")

\* get_task_by_id: the first task with that id, or None
GetTaskById(ts, id) ==
    LET hits == SelectSeq(ts, LAMBDA t : t.id = id)
    IN  IF hits = << >> THEN None ELSE Some(Head(hits))

\* the position in ts of the task get_task_by_id finds
IndexOfId(ts, id) == CHOOSE i \in 1..Len(ts) : ts[i].id = id /\ \A j \in 1..(i - 1) : ts[j].id # id


\* Task(...) in create_task with the caller's arguments
NewTask(in, id, c, u) ==
    Task(id, in.title, in.description, in.priority, in.estimate_hours, in.due_date, c, u)

\* tasks.append(task)
AppendTask(ts, t) == Append(ts, t)

\* update_task over model_dump() without exclude_unset: the fields the
\* TaskUpdate leaves unset are written too, as None
ApplyUpdateAllFields(t, u, at) ==
    [f \in DOMAIN t |->
        IF f = "updated_at" THEN at
        ELSE IF f \in DOMAIN u THEN u[f]
        ELSE IF f \in {"id", "created_at"} THEN t[f]
        ELSE None]

\* the setattr loop of update_task over model_dump(exclude_unset=True), a
\* function from the fields set on the TaskUpdate to their values, and then
\* task.updated_at = datetime.now()
ApplyUpdate(t, u, at) ==
    [f \in DOMAIN t |->
        IF f = "updated_at" THEN at
        ELSE IF f \in DOMAIN u THEN u[f]
        ELSE t[f]]

\* delete_task with the test inverted: [task for task in self.tasks if task.id == task_id]
WithoutIdInverted(ts, id) == SelectSeq(ts, LAMBDA t : t.id = id)

\* [task for task in self.tasks if task.id != task_id]
WithoutId(ts, id) == SelectSeq(ts, LAMBDA t : t.id # id)

\* the sort key x.priority alone: created_at breaks no tie
KeyGreaterPriorityOnly(a, b) ==
    IF a.priority = b.priority THEN FALSE
    ELSE Val(a.priority) > Val(b.priority)

\* the sort key (x.priority, x.created_at): tuple comparison, a > b
KeyGreater(a, b) ==
    IF a.priority = b.priority THEN a.created_at > b.created_at
    ELSE Val(a.priority) > Val(b.priority)

\* one insertion of a stable descending sort: t goes behind every element
\* whose key is not smaller than its own
RECURSIVE InsertDesc(_, _)
InsertDesc(s, t) ==
    IF s = << >> THEN <<t>>
    ELSE IF KeyGreater(t, Head(s)) THEN <<t>> \o s
         ELSE <<Head(s)>> \o InsertDesc(Tail(s), t)

\* sorted(ts, key=..., reverse=True): stable, equal keys keep their order
RECURSIVE SortedDesc(_)
SortedDesc(ts) ==
    IF ts = << >> THEN << >>
    ELSE InsertDesc(SortedDesc(SubSeq(ts, 1, Len(ts) - 1)), ts[Len(ts)])

\* comparing the keys of ts raises TypeError: None is ordered against an int
SortRaises(ts) ==
    \E i, j \in 1..Len(ts) : ts[i].priority = None /\ ts[j].priority # None

\* a comparison task.priority >= bound raises TypeError on a None priority
CompareRaises(ts) == \E i \in 1..Len(ts) : ts[i].priority = None

\* `if filter_criteria.status:` and the list it keeps
StatusStage(ts, f) ==
    IF f.status # None /\ Val(f.status) # {}
    THEN SelectSeq(ts, LAMBDA t : t.status # None /\ Val(t.status) \in Val(f.status))
    ELSE ts

MinStage(ts, f) ==
    IF f.min_priority # None
    THEN SelectSeq(ts, LAMBDA t : Val(t.priority) >= Val(f.min_priority))
    ELSE ts

MaxStage(ts, f) ==
    IF f.max_priority # None
    THEN SelectSeq(ts, LAMBDA t : Val(t.priority) <= Val(f.max_priority))
    ELSE ts

DueStage(ts, f) ==
    IF f.has_due_date # None
    THEN IF Val(f.has_due_date)
         THEN SelectSeq(ts, LAMBDA t : t.due_date # None)
         ELSE SelectSeq(ts, LAMBDA t : t.due_date = None)
    ELSE ts

\* get_tasks(filter_criteria): what it returns or raises; fo is None or Some(f)
GetTasks(ts, fo) ==
    IF fo = None
    THEN IF SortRaises(ts) THEN Raises("TypeError") ELSE ReturnsList(SortedDesc(ts))
    ELSE LET f == Val(fo)
             s1 == StatusStage(ts, f)
         IN  IF f.min_priority # None /\ CompareRaises(s1) THEN Raises("TypeError")
             ELSE LET s2 == MinStage(s1, f)
                  IN  IF f.max_priority # None /\ CompareRaises(s2) THEN Raises("TypeError")
                      ELSE LET s4 == DueStage(MaxStage(s2, f), f)
                           IN  IF SortRaises(s4) THEN Raises("TypeError")
                               ELSE ReturnsList(SortedDesc(s4))

----------------------------------------------------------------------------
(* TimeSlot, DayPlan, and the Day Plan Store.  plans[d] is None when the dict *)
(* has no key for day d, and Some(plan) when it has.                          *)

Days == 1..MaxDay

TimeSlot(start_time, end_time, task_id, notes) ==
    [start_time |-> start_time, end_time |-> end_time, task_id |-> task_id, notes |-> notes]

\* DayPlan(date=today, notes=notes): created_at and updated_at by their default factories
DayPlan(date, notes, c, u) ==
    [date |-> date, time_slots |-> << >>, notes |-> notes, created_at |-> c, updated_at |-> u]

\* plan.model_dump(mode="json")
PlanDump(p) == [p EXCEPT !.created_at = IsoFormat(@), !.updated_at = IsoFormat(@)]

\* the DayPlan that DayPlan(**plan_data) builds from a record of the file
PlanLoad(d) == [d EXCEPT !.created_at = FromIso(@), !.updated_at = FromIso(@)]

NoPlansFile == [exists |-> FALSE, form |-> "garbage", data |-> [d \in Days |-> None]]

\* the file a write leaves that failed after open(path, "w") truncated it
TruncatedPlansFile == [exists |-> TRUE, form |-> "garbage", data |-> [d \in Days |-> None]]

\* _save_plans when the write succeeds: the file rewritten in full
SavePlans(ps) ==
    [exists |-> TRUE, form |-> "json",
     data |-> [d \in DOMAIN ps |-> IF ps[d] = None THEN None ELSE Some(PlanDump(Val(ps[d])))]]

\* _save_plans: the file it leaves, as WriteTasks
WritePlans(file, ps, dk) ==
    CASE dk = "ok" -> SavePlans(ps)
      [] dk = "denied" -> file
      [] dk = "full" -> TruncatedPlansFile

\* _load_plans: the dict it leaves in self.plans, or the exception that leaves
\* __init__; a missing file leaves the empty dict and is not created
LoadPlans(file) ==
    CASE ~file.exists -> Returns([d \in Days |-> None])
      [] file.form = "unreadable" -> Raises("PermissionError")
      [] file.form = "garbage" -> Returns([d \in Days |-> None])
      [] file.form = "other" -> Raises("AttributeError")
      [] file.form = "invalid" -> Raises("ValidationError")
      [] file.form = "json" ->
           Returns([d \in Days |-> IF file.data[d] = None THEN None
                                   ELSE Some(PlanLoad(Val(file.data[d])))])

\* get_today_plan: self.plans.get(today)
GetTodayPlan(ps, d) == ps[d]

\* self.plans.setdefault(today, plan): a plan the dict holds stays
PutPlanKeep(ps, d, plan) == IF ps[d] = None THEN [ps EXCEPT ![d] = Some(plan)] ELSE ps

\* self.plans[today] = plan, also when the plan the dict holds was changed in place
PutPlan(ps, d, plan) == [ps EXCEPT ![d] = Some(plan)]

\* the two clock reads of a DayPlan's default factories; none when
\* get_or_create_today_plan finds a plan
CreateReads(ps, d, n) ==
    IF GetTodayPlan(ps, d) = None
    THEN {cu \in (0..MaxClock) \X (0..MaxClock) : cu[1] \in ClockReads(n) /\ cu[2] \in ClockReads(cu[1])}
    ELSE {<<n, n>>}

\* get_or_create_today_plan: the plans it leaves
GetOrCreate(ps, d, c, u) ==
    IF GetTodayPlan(ps, d) = None THEN PutPlan(ps, d, DayPlan(IsoDate(d), None, c, u)) ELSE ps

\* the task check of add_time_slot: `if task_id and not get_task_by_id(task_id)`
AddSlotRejects(ts, task_id) == Truthy(task_id) /\ GetTaskById(ts, Val(task_id)) = None

\* plan.time_slots.append(time_slot); plan.updated_at = datetime.now()
AppendSlot(plan, slot, at) ==
    [plan EXCEPT !.time_slots = Append(@, slot), !.updated_at = at]

\* the bounds check of assign_task_to_slot and remove_time_slot
IndexRejected(slots, slot_index) == slot_index >= Len(slots)

\* Python's list[i]: the position (from 1) it addresses, 0 when it raises IndexError
PyIndex(slots, i) ==
    IF i >= 0 THEN (IF i < Len(slots) THEN i + 1 ELSE 0)
    ELSE (IF i + Len(slots) >= 0 THEN i + Len(slots) + 1 ELSE 0)

\* plan.time_slots[slot_index].task_id = task_id; plan.updated_at = datetime.now()
AssignSlot(plan, pos, task_id, at) ==
    [plan EXCEPT !.time_slots[pos].task_id = Some(task_id), !.updated_at = at]

\* plan.time_slots.pop(slot_index); plan.updated_at = datetime.now()
PopSlot(plan, pos, at) ==
    [plan EXCEPT !.time_slots = SubSeq(@, 1, pos - 1) \o SubSeq(@, pos + 1, Len(@)),
                 !.updated_at = at]

\* [slot.task_id for slot in plan.time_slots if slot.task_id]
ScheduledIds(slots) ==
    LET bound == SelectSeq(slots, LAMBDA s : Truthy(s.task_id))
    IN  [i \in 1..Len(bound) |-> Val(bound[i].task_id)]

\* get_scheduled_tasks as [t for t in tasks if t.id in scheduled_task_ids]:
\* the tasks in the order of the Task Store
GetScheduledTasksStoreOrder(ps, d, ts) ==
    IF GetTodayPlan(ps, d) = None THEN << >>
    ELSE LET ids == ScheduledIds(Val(GetTodayPlan(ps, d)).time_slots)
         IN  SelectSeq(ts, LAMBDA t : \E i \in 1..Len(ids) : ids[i] = t.id)

\* get_scheduled_tasks
GetScheduledTasks(ps, d, ts) ==
    IF GetTodayPlan(ps, d) = None THEN << >>
    ELSE LET ids == ScheduledIds(Val(GetTodayPlan(ps, d)).time_slots)
             found == SelectSeq(ids, LAMBDA id : GetTaskById(ts, id) # None)
         IN  [i \in 1..Len(found) |-> Val(GetTaskById(ts, found[i]))]

\* get_unscheduled_tasks: what it returns or raises
GetUnscheduledTasks(ps, d, ts) ==
    LET all == GetTasks(ts, None)
        slots == IF GetTodayPlan(ps, d) = None THEN << >> ELSE Val(GetTodayPlan(ps, d)).time_slots
        ids == {ScheduledIds(slots)[i] : i \in 1..Len(ScheduledIds(slots))}
    IN  IF all.kind = "raise" THEN all
        ELSE ReturnsList(SelectSeq(all.list, LAMBDA t : t.id \notin ids))

\* len([slot for slot in plan.time_slots if slot.task_id])
ScheduledSlots(slots) == Len(SelectSeq(slots, LAMBDA s : Truthy(s.task_id)))

\* get_day_summary
GetDaySummary(ps, d) ==
    IF GetTodayPlan(ps, d) = None
    THEN [date |-> IsoDate(d), has_plan |-> FALSE, total_slots |-> 0,
          scheduled_slots |-> 0, unscheduled_slots |-> 0]
    ELSE LET plan == Val(GetTodayPlan(ps, d)) IN
         [date |-> plan.date, has_plan |-> TRUE, total_slots |-> Len(plan.time_slots),
          scheduled_slots |-> ScheduledSlots(plan.time_slots),
          unscheduled_slots |-> Len(plan.time_slots) - ScheduledSlots(plan.time_slots),
          notes |-> plan.notes]

----------------------------------------------------------------------------
(* The inputs the model draws. *)

\* the arguments of create_task
CreateInputs ==
    { [title |-> "a", description |-> None, priority |-> DefaultPriority,
       estimate_hours |-> None, due_date |-> None],
      [title |-> "b", description |-> Some("d"), priority |-> MaxPriority,
       estimate_hours |-> Some(2), due_date |-> Some("2026-11-05")],
      [title |-> "", description |-> None, priority |-> DefaultPriority,
       estimate_hours |-> None, due_date |-> None],
      [title |-> LongTitle, description |-> None, priority |-> DefaultPriority,
       estimate_hours |-> None, due_date |-> None],
      [title |-> "a", description |-> None, priority |-> MaxPriority + 1,
       estimate_hours |-> None, due_date |-> None],
      [title |-> "a", description |-> None, priority |-> DefaultPriority,
       estimate_hours |-> Some(0), due_date |-> None] }

\* TaskUpdate values, each as its model_dump(exclude_unset=True)
Updates ==
    { << >>,
      [priority |-> Some(MaxPriority)],
      [priority |-> None],
      [status |-> Some("completed")],
      [title |-> Some("c"), due_date |-> Some("2026-11-06")] }

\* the task ids a caller passes: those uuid4 can have produced, and one it never does
CallerIds == {Uuid4(n) : n \in 1..MaxTasks} \cup {"zz"}

\* TaskFilter values
AllFilters ==
    [status : {None} \cup {Some(S) : S \in SUBSET Statuses},
     min_priority : {None} \cup {Some(p) : p \in MinPriority..MaxPriority},
     max_priority : {None} \cup {Some(p) : p \in MinPriority..MaxPriority},
     has_due_date : {None, Some(TRUE), Some(FALSE)}]

NoFilter == [status |-> None, min_priority |-> None, max_priority |-> None, has_due_date |-> None]

\* the filters the get_tasks action is called with
CallFilters ==
    { None,
      Some(NoFilter),
      Some([NoFilter EXCEPT !.status = Some({})]),
      Some([NoFilter EXCEPT !.status = Some({"completed"})]),
      Some([NoFilter EXCEPT !.min_priority = Some(4)]),
      Some([NoFilter EXCEPT !.max_priority = Some(4), !.has_due_date = Some(FALSE)]) }


\* the inputs of the Task Store's methods when both stores run
PlanCreateInputs == {in \in CreateInputs : in.title = "a" /\ in.estimate_hours = None /\ in.priority = DefaultPriority}
PlanUpdates == {u \in Updates : DOMAIN u = {"priority"} /\ u.priority = None}

\* notes of a plan
PlanNotes == {None, Some("n")}

\* start_time, end_time and notes of a slot
SlotInputs == {[start_time |-> "09:00", end_time |-> "10:00", notes |-> None]}

\* the task_id argument of add_time_slot
SlotTaskIds == {None, Some("")} \cup {Some(id) : id \in CallerIds}

\* the task_id argument of assign_task_to_slot
AssignIds == CallerIds \cup {""}

\* the arguments drawn when several days are run
DaysTaskIds == {None, Some(Uuid4(1)), Some("zz")}
DaysAssignIds == {Uuid4(1)}
DaysIndexes == {0, MaxSlots}

\* the slot_index argument: every position, and the integers around them
SlotIndexes == (0 - MaxSlots - 1)..MaxSlots

\* a task and a plan that an earlier run of the program wrote to the files
StoredTask == Task(Uuid4(6), "a", None, DefaultPriority, None, None, 0, 0)
StoredPlan == DayPlan(IsoDate(1), None, 0, 0)

\* the task files a store is started on: none, one that may not be read, one
\* that is no JSON, a JSON object, and JSON lists: of a task the program wrote,
\* of a record whose priority is out of range, of a record without a title
TaskFileInputs ==
    { NoTasksFile,
      [exists |-> TRUE, form |-> "unreadable", data |-> << >>],
      [exists |-> TRUE, form |-> "garbage", data |-> << >>],
      [exists |-> TRUE, form |-> "other", data |-> << >>],
      SaveTasks(<<StoredTask>>),
      [SaveTasks(<<StoredTask>>) EXCEPT !.data[1].priority = Some(MaxPriority + 1)],
      [SaveTasks(<<StoredTask>>) EXCEPT !.data[1].title = None] }

\* the plans files a store is started on, likewise; the last holds a plan
\* without a date
PlanFileInputs ==
    { NoPlansFile,
      [exists |-> TRUE, form |-> "unreadable", data |-> [d \in Days |-> None]],
      [exists |-> TRUE, form |-> "garbage", data |-> [d \in Days |-> None]],
      [exists |-> TRUE, form |-> "other", data |-> [d \in Days |-> None]],
      SavePlans([d \in Days |-> IF d = 1 THEN Some(StoredPlan) ELSE None]),
      [exists |-> TRUE, form |-> "invalid", data |-> [d \in Days |-> None]] }

\* what the file system does with a write: it succeeds, open() fails, or the
\* write fails after open() truncated the file
DiskModes == {"ok", "denied", "full"}

\* the inputs drawn when the process is started and stopped
FilesTaskIds == {Uuid4(1), Uuid4(6)}
FilesSlotTaskIds == {None}
FilesNotes == {None}
FilesIndexes == {0}

\* the inputs drawn when the stores start on a task an earlier run wrote
StaleIds == {Uuid4(1), Uuid4(2)}
StaleSlotTaskIds == {Some(Uuid4(1))}
StaleAssignIds == {Uuid4(6)}

----------------------------------------------------------------------------
(* Starting and stopping the process (main.py). *)

\* the files as they are found, and no store constructed yet
InitFiles ==
    /\ tasks = << >>
    /\ tasksFile \in TaskFileInputs
    /\ plans = [d \in Days |-> None]
    /\ plansFile \in PlanFileInputs
    /\ now = 0
    /\ today = 1
    /\ nextUuid = 0
    /\ created = {}
    /\ call = [op |-> "init"]
    /\ ret = ReturnsOpt(None)
    /\ disk = "ok"
    /\ started = "none"
    /\ replaced = FALSE

\* task_manager = TaskManager(): __init__ and _load_tasks
TaskManager_init ==
    /\ started = "none"
    /\ call' = [op |-> "TaskManager"]
    /\ IF ~tasksFile.exists
       THEN /\ tasks' = << >>
            /\ tasksFile' = WriteTasks(tasksFile, << >>, disk)
            /\ ret' = ReturnsOpt(None)
            /\ started' = "tasks"
       ELSE LET loaded == LoadTasks(tasksFile)
            IN  /\ tasksFile' = tasksFile
                /\ IF loaded.kind = "raise"
                   THEN /\ tasks' = << >>
                        /\ ret' = loaded
                        /\ started' = "none"
                   ELSE /\ tasks' = loaded.list
                        /\ ret' = ReturnsOpt(None)
                        /\ started' = "tasks"
    /\ created' = {}
    /\ replaced' = FALSE
    /\ UNCHANGED <<plans, plansFile, now, today, nextUuid, disk>>

\* day_planner = DayPlanner(task_manager): __init__ and _load_plans; an
\* exception ends the process
DayPlanner_init ==
    /\ started = "tasks"
    /\ call' = [op |-> "DayPlanner"]
    /\ LET loaded == LoadPlans(plansFile)
       IN  IF loaded.kind = "raise"
           THEN /\ plans' = [d \in Days |-> None]
                /\ tasks' = << >>
                /\ ret' = loaded
                /\ started' = "none"
           ELSE /\ plans' = loaded.val
                /\ tasks' = tasks
                /\ ret' = ReturnsOpt(None)
                /\ started' = "both"
    /\ replaced' = FALSE
    /\ UNCHANGED <<tasksFile, plansFile, now, today, nextUuid, created, disk>>

\* the process ends: the instances are gone, the files stay
exit ==
    /\ started = "both"
    /\ call' = [op |-> "exit"]
    /\ ret' = ReturnsOpt(None)
    /\ tasks' = << >>
    /\ plans' = [d \in Days |-> None]
    /\ started' = "none"
    /\ replaced' = FALSE
    /\ UNCHANGED <<tasksFile, plansFile, now, today, nextUuid, created, disk>>

\* the file system changes its mind about writes
DiskChanges(dk) ==
    /\ dk # disk
    /\ disk' = dk
    /\ call' = [op |-> "disk"]
    /\ ret' = ReturnsOpt(None)
    /\ replaced' = FALSE
    /\ UNCHANGED <<tasks, tasksFile, plans, plansFile, now, today, nextUuid, created, started>>

----------------------------------------------------------------------------
(* The Task Store's methods.  A method is called on the instances of a      *)
(* process that has started.                                                *)

Init ==
    /\ tasks = << >>
    /\ tasksFile = SaveTasks(<< >>)
    /\ plans = [d \in Days |-> None]
    /\ plansFile = NoPlansFile
    /\ now = 0
    /\ today = 1
    /\ nextUuid = 0
    /\ created = {}
    /\ call = [op |-> "init"]
    /\ ret = ReturnsOpt(None)
    /\ disk = "ok"
    /\ started = "both"
    /\ replaced = FALSE

create_task(in) ==
    /\ started = "both"
    /\ nextUuid < MaxTasks
    /\ call' = [op |-> "create_task", in |-> in]
    /\ IF ~TaskValid(in.title, in.description, in.priority, in.estimate_hours)
       THEN /\ ret' = Raises("ValidationError")
            /\ UNCHANGED <<tasks, tasksFile, now, nextUuid, created>>
       ELSE \E c \in ClockReads(now) : \E u \in ClockReads(c) :
              LET t == NewTask(in, Uuid4(nextUuid + 1), c, u)
                  after == AppendTask(tasks, t)
              IN
                /\ tasks' = after
                /\ tasksFile' = WriteTasks(tasksFile, after, disk)
                /\ now' = u
                /\ nextUuid' = nextUuid + 1
                /\ created' = created \cup {t.id}
                /\ ret' = Returns(t)
    /\ replaced' = FALSE
    /\ UNCHANGED <<plans, plansFile, today, disk, started>>

get_task_by_id(id) ==
    /\ started = "both"
    /\ call' = [op |-> "get_task_by_id", task_id |-> id]
    /\ ret' = ReturnsOpt(GetTaskById(tasks, id))
    /\ replaced' = FALSE
    /\ UNCHANGED <<tasks, tasksFile, plans, plansFile, now, today, nextUuid, created, disk, started>>

get_tasks(fo) ==
    /\ started = "both"
    /\ call' = [op |-> "get_tasks", filter |-> fo]
    /\ ret' = GetTasks(tasks, fo)
    /\ replaced' = FALSE
    /\ UNCHANGED <<tasks, tasksFile, plans, plansFile, now, today, nextUuid, created, disk, started>>

update_task(id, u) ==
    /\ started = "both"
    /\ call' = [op |-> "update_task", task_id |-> id, updates |-> u]
    /\ IF GetTaskById(tasks, id) = None
       THEN /\ ret' = Raises("ValueError")
            /\ UNCHANGED <<tasks, tasksFile, now>>
       ELSE \E at \in ClockReads(now) :
              LET i == IndexOfId(tasks, id)
                  after == [tasks EXCEPT ![i] = ApplyUpdate(@, u, at)]
              IN
                /\ tasks' = after
                /\ tasksFile' = WriteTasks(tasksFile, after, disk)
                /\ now' = at
                /\ ret' = Returns(after[i])
    /\ replaced' = FALSE
    /\ UNCHANGED <<plans, plansFile, today, nextUuid, created, disk, started>>

delete_task(id) ==
    /\ started = "both"
    /\ call' = [op |-> "delete_task", task_id |-> id]
    /\ LET after == WithoutId(tasks, id) IN
         /\ tasks' = after
         /\ IF Len(after) < Len(tasks)
            THEN /\ tasksFile' = WriteTasks(tasksFile, after, disk)
                 /\ ret' = ReturnsBool(TRUE)
            ELSE /\ tasksFile' = tasksFile
                 /\ ret' = ReturnsBool(FALSE)
    /\ replaced' = FALSE
    /\ UNCHANGED <<plans, plansFile, now, today, nextUuid, created, disk, started>>

----------------------------------------------------------------------------
(* The Day Plan Store's methods. *)

create_today_plan(notes) ==
    /\ started = "both"
    /\ call' = [op |-> "create_today_plan", notes |-> notes]
    /\ \E c \in ClockReads(now) : \E u \in ClockReads(c) :
         LET plan == DayPlan(IsoDate(today), notes, c, u)
             after == PutPlan(plans, today, plan)
         IN  /\ plans' = after
             /\ plansFile' = WritePlans(plansFile, after, disk)
             /\ now' = u
             /\ ret' = Returns(plan)
    /\ replaced' = (GetTodayPlan(plans, today) # None)
    /\ UNCHANGED <<tasks, tasksFile, today, nextUuid, created, disk, started>>

get_today_plan ==
    /\ started = "both"
    /\ call' = [op |-> "get_today_plan"]
    /\ ret' = ReturnsOpt(GetTodayPlan(plans, today))
    /\ replaced' = FALSE
    /\ UNCHANGED <<tasks, tasksFile, plans, plansFile, now, today, nextUuid, created, disk, started>>

get_or_create_today_plan ==
    /\ started = "both"
    /\ call' = [op |-> "get_or_create_today_plan"]
    /\ \E cu \in CreateReads(plans, today, now) :
         LET got == GetOrCreate(plans, today, cu[1], cu[2])
         IN  /\ plans' = got
             /\ plansFile' = IF GetTodayPlan(plans, today) = None THEN WritePlans(plansFile, got, disk) ELSE plansFile
             /\ now' = cu[2]
             /\ ret' = Returns(Val(got[today]))
    /\ replaced' = FALSE
    /\ UNCHANGED <<tasks, tasksFile, today, nextUuid, created, disk, started>>

add_time_slot(start_time, end_time, task_id, notes) ==
    /\ started = "both"
    /\ call' = [op |-> "add_time_slot", start_time |-> start_time, end_time |-> end_time,
                task_id |-> task_id, notes |-> notes]
    /\ \E cu \in CreateReads(plans, today, now) :
         LET got == GetOrCreate(plans, today, cu[1], cu[2])
             gotFile == IF GetTodayPlan(plans, today) = None THEN WritePlans(plansFile, got, disk) ELSE plansFile
             slot == TimeSlot(start_time, end_time, task_id, notes)
         IN  IF AddSlotRejects(tasks, task_id)
             THEN /\ plans' = got
                  /\ plansFile' = gotFile
                  /\ now' = cu[2]
                  /\ ret' = Raises("ValueError")
             ELSE /\ Len(Val(got[today]).time_slots) < MaxSlots
                  /\ \E at \in ClockReads(cu[2]) :
                       LET after == PutPlan(got, today, AppendSlot(Val(got[today]), slot, at))
                       IN  /\ plans' = after
                           /\ plansFile' = WritePlans(gotFile, after, disk)
                           /\ now' = at
                           /\ ret' = Returns(slot)
    /\ replaced' = FALSE
    /\ UNCHANGED <<tasks, tasksFile, today, nextUuid, created, disk, started>>

assign_task_to_slot(slot_index, task_id) ==
    /\ started = "both"
    /\ call' = [op |-> "assign_task_to_slot", slot_index |-> slot_index, task_id |-> task_id]
    /\ IF GetTodayPlan(plans, today) = None
       THEN ret' = Raises("ValueError") /\ UNCHANGED <<plans, plansFile, now>>
       ELSE LET plan == Val(GetTodayPlan(plans, today))
                pos == PyIndex(plan.time_slots, slot_index)
            IN  IF IndexRejected(plan.time_slots, slot_index)
                THEN ret' = Raises("ValueError") /\ UNCHANGED <<plans, plansFile, now>>
                ELSE IF GetTaskById(tasks, task_id) = None
                THEN ret' = Raises("ValueError") /\ UNCHANGED <<plans, plansFile, now>>
                ELSE IF pos = 0
                THEN ret' = Raises("IndexError") /\ UNCHANGED <<plans, plansFile, now>>
                ELSE \E at \in ClockReads(now) :
                       LET changed == AssignSlot(plan, pos, task_id, at)
                           after == PutPlan(plans, today, changed)
                       IN  /\ plans' = after
                           /\ plansFile' = WritePlans(plansFile, after, disk)
                           /\ now' = at
                           /\ ret' = Returns(changed.time_slots[pos])
    /\ replaced' = FALSE
    /\ UNCHANGED <<tasks, tasksFile, today, nextUuid, created, disk, started>>

remove_time_slot(slot_index) ==
    /\ started = "both"
    /\ call' = [op |-> "remove_time_slot", slot_index |-> slot_index]
    /\ IF GetTodayPlan(plans, today) = None
       THEN ret' = ReturnsBool(FALSE) /\ UNCHANGED <<plans, plansFile, now>>
       ELSE LET plan == Val(GetTodayPlan(plans, today))
                pos == PyIndex(plan.time_slots, slot_index)
            IN  IF IndexRejected(plan.time_slots, slot_index)
                THEN ret' = ReturnsBool(FALSE) /\ UNCHANGED <<plans, plansFile, now>>
                ELSE IF pos = 0
                THEN ret' = Raises("IndexError") /\ UNCHANGED <<plans, plansFile, now>>
                ELSE \E at \in ClockReads(now) :
                       LET after == PutPlan(plans, today, PopSlot(plan, pos, at))
                       IN  /\ plans' = after
                           /\ plansFile' = WritePlans(plansFile, after, disk)
                           /\ now' = at
                           /\ ret' = ReturnsBool(TRUE)
    /\ replaced' = FALSE
    /\ UNCHANGED <<tasks, tasksFile, today, nextUuid, created, disk, started>>

get_scheduled_tasks ==
    /\ started = "both"
    /\ call' = [op |-> "get_scheduled_tasks"]
    /\ ret' = ReturnsList(GetScheduledTasks(plans, today, tasks))
    /\ replaced' = FALSE
    /\ UNCHANGED <<tasks, tasksFile, plans, plansFile, now, today, nextUuid, created, disk, started>>

get_unscheduled_tasks ==
    /\ started = "both"
    /\ call' = [op |-> "get_unscheduled_tasks"]
    /\ ret' = GetUnscheduledTasks(plans, today, tasks)
    /\ replaced' = FALSE
    /\ UNCHANGED <<tasks, tasksFile, plans, plansFile, now, today, nextUuid, created, disk, started>>

get_day_summary ==
    /\ started = "both"
    /\ call' = [op |-> "get_day_summary"]
    /\ ret' = Returns(GetDaySummary(plans, today))
    /\ replaced' = FALSE
    /\ UNCHANGED <<tasks, tasksFile, plans, plansFile, now, today, nextUuid, created, disk, started>>

\* midnight passes: date.today() moves to the next day
NextDay ==
    /\ today < MaxDay
    /\ today' = today + 1
    /\ call' = [op |-> "midnight"]
    /\ ret' = ReturnsOpt(None)
    /\ replaced' = FALSE
    /\ UNCHANGED <<tasks, tasksFile, plans, plansFile, now, nextUuid, created, disk, started>>

----------------------------------------------------------------------------
(* The specifications. *)

\* the Task Store alone, with every input
NextTasks ==
    \/ \E in \in CreateInputs : create_task(in)
    \/ \E id \in CallerIds : get_task_by_id(id)
    \/ \E fo \in CallFilters : get_tasks(fo)
    \/ \E id \in CallerIds, u \in Updates : update_task(id, u)
    \/ \E id \in CallerIds : delete_task(id)

SpecTasks == Init /\ [][NextTasks]_vars

\* both stores
Next ==
    \/ \E in \in PlanCreateInputs : create_task(in)
    \/ \E id \in CallerIds, u \in PlanUpdates : update_task(id, u)
    \/ \E id \in CallerIds : delete_task(id)
    \/ \E notes \in PlanNotes : create_today_plan(notes)
    \/ get_today_plan
    \/ get_or_create_today_plan
    \/ \E in \in SlotInputs, tid \in SlotTaskIds :
         add_time_slot(in.start_time, in.end_time, tid, in.notes)
    \/ \E i \in SlotIndexes, id \in AssignIds : assign_task_to_slot(i, id)
    \/ \E i \in SlotIndexes : remove_time_slot(i)
    \/ get_scheduled_tasks
    \/ get_unscheduled_tasks
    \/ get_day_summary

Spec == Init /\ [][Next]_vars

\* the Day Plan Store over several days, with fewer inputs
NextDays ==
    \/ \E in \in PlanCreateInputs : create_task(in)
    \/ \E notes \in PlanNotes : create_today_plan(notes)
    \/ get_or_create_today_plan
    \/ \E in \in SlotInputs, tid \in DaysTaskIds :
         add_time_slot(in.start_time, in.end_time, tid, in.notes)
    \/ \E id \in DaysAssignIds : assign_task_to_slot(0, id)
    \/ \E i \in DaysIndexes : remove_time_slot(i)
    \/ get_day_summary
    \/ NextDay

SpecDays == Init /\ [][NextDays]_vars

\* both stores constructed on the tasks file of an earlier run, which holds
\* one task, and no plans file
InitStored ==
    /\ tasks = <<StoredTask>>
    /\ tasksFile = SaveTasks(<<StoredTask>>)
    /\ plans = [d \in Days |-> None]
    /\ plansFile = NoPlansFile
    /\ now = 0
    /\ today = 1
    /\ nextUuid = 0
    /\ created = {}
    /\ call = [op |-> "init"]
    /\ ret = ReturnsOpt(None)
    /\ disk = "ok"
    /\ started = "both"
    /\ replaced = FALSE

\* both stores, binding tasks to slots and deleting them
NextStale ==
    \/ \E in \in PlanCreateInputs : create_task(in)
    \/ \E id \in StaleIds, u \in PlanUpdates : update_task(id, u)
    \/ \E id \in StaleIds : delete_task(id)
    \/ \E notes \in FilesNotes : create_today_plan(notes)
    \/ get_today_plan
    \/ get_or_create_today_plan
    \/ \E in \in SlotInputs, tid \in StaleSlotTaskIds :
         add_time_slot(in.start_time, in.end_time, tid, in.notes)
    \/ \E i \in FilesIndexes, id \in StaleAssignIds : assign_task_to_slot(i, id)
    \/ \E i \in FilesIndexes : remove_time_slot(i)
    \/ get_scheduled_tasks
    \/ get_unscheduled_tasks
    \/ get_day_summary

SpecStale == InitStored /\ [][NextStale]_vars

\* the methods called while the process is started and stopped and writes fail
FilesCalls ==
    \/ \E in \in PlanCreateInputs : create_task(in)
    \/ \E id \in FilesTaskIds, u \in PlanUpdates : update_task(id, u)
    \/ \E id \in FilesTaskIds : delete_task(id)
    \/ \E notes \in FilesNotes : create_today_plan(notes)
    \/ \E in \in SlotInputs, tid \in FilesSlotTaskIds :
         add_time_slot(in.start_time, in.end_time, tid, in.notes)
    \/ \E i \in FilesIndexes : remove_time_slot(i)

NextFiles ==
    \/ TaskManager_init
    \/ DayPlanner_init
    \/ exit
    \/ \E dk \in DiskModes : DiskChanges(dk)
    \/ FilesCalls

SpecFiles == InitFiles /\ [][NextFiles]_vars

----------------------------------------------------------------------------
(* The claims. *)

\* whether a task with this id is in the list
Resolves(ts, id) == \E i \in 1..Len(ts) : ts[i].id = id

\* the elements of a sequence
Range(s) == {s[i] : i \in 1..Len(s)}

\* today's slots, none when there is no plan for today
TodaySlots == IF plans[today] = None THEN << >> ELSE Val(plans[today]).time_slots

\* C1: add_time_slot with a task_id that does not resolve in the Task Store
\* fails with the not-found error and leaves the plans and the plans file as
\* they were, also when there is no plan for today.
C1_UnknownTaskLeavesPlans ==
    [][(/\ call'.op = "add_time_slot"
        /\ call'.task_id # None
        /\ ~Resolves(tasks, Val(call'.task_id)))
       => (/\ ret' = Raises("ValueError")
           /\ plans' = plans
           /\ plansFile' = plansFile)]_vars

\* C2: no two tasks of the collection share an id, and the id create_task
\* returns is the id of no task created earlier, deleted ones included.
C2_IdsUnique ==
    [][/\ \A i, j \in 1..Len(tasks') : i # j => tasks'[i].id # tasks'[j].id
       /\ (call'.op = "create_task" /\ ret'.kind = "return")
            => (/\ ret'.val.id \notin created
                /\ ~Resolves(tasks, ret'.val.id)
                /\ created' = created \cup {ret'.val.id})]_vars

\* C2 happens: create_task has returned a task after an earlier task was deleted
C2_Witness ==
    /\ call.op = "create_task"
    /\ ret.kind = "return"
    /\ Len(tasks) = 1
    /\ Cardinality(created) = 2

\* the fields of a Task that a TaskUpdate can carry
UpdatableFields == {"title", "description", "status", "priority", "estimate_hours", "due_date"}

\* C3: a successful update_task(id, u) sets exactly the fields present in u
\* to u's values and refreshes updated_at; the absent fields, id and
\* created_at, every other task and the order of the collection stay.
C3_UpdateFrame ==
    [][(call'.op = "update_task" /\ ret'.kind = "return")
       => LET u == call'.updates
              i == CHOOSE k \in 1..Len(tasks) : tasks[k].id = call'.task_id
          IN  /\ Len(tasks') = Len(tasks)
              /\ \A j \in 1..Len(tasks) : j # i => tasks'[j] = tasks[j]
              /\ \A f \in DOMAIN u : f \in UpdatableFields /\ tasks'[i][f] = u[f]
              /\ \A f \in UpdatableFields \ DOMAIN u : tasks'[i][f] = tasks[i][f]
              /\ tasks'[i].id = tasks[i].id
              /\ tasks'[i].created_at = tasks[i].created_at
              /\ tasks'[i].updated_at = now'
              /\ ret'.val = tasks'[i]]_vars

\* C3 happens: an update that carries only priority has changed the first of two tasks
C3_Witness ==
    /\ call.op = "update_task"
    /\ ret.kind = "return"
    /\ DOMAIN call.updates = {"priority"}
    /\ call.updates.priority = Some(MaxPriority)
    /\ Len(tasks) = 2
    /\ tasks[1].id = call.task_id
    /\ tasks[1].title = Some("c")

\* C4: delete_task of a present id returns true and removes exactly that
\* task; delete_task of an absent id (a second delete) returns false and
\* leaves the collection and the file as they were.
C4_DeleteIdempotent ==
    [][call'.op = "delete_task"
       => IF Resolves(tasks, call'.task_id)
          THEN LET i == CHOOSE k \in 1..Len(tasks) : tasks[k].id = call'.task_id
               IN  /\ ret' = ReturnsBool(TRUE)
                   /\ Len(tasks') = Len(tasks) - 1
                   /\ tasks' = SubSeq(tasks, 1, i - 1) \o SubSeq(tasks, i + 1, Len(tasks))
                   /\ ~Resolves(tasks', call'.task_id)
          ELSE /\ ret' = ReturnsBool(FALSE)
               /\ tasks' = tasks
               /\ tasksFile' = tasksFile]_vars

\* C4 happens: a second delete_task of an id that was created has returned false
C4_Witness ==
    /\ call.op = "delete_task"
    /\ ret = ReturnsBool(FALSE)
    /\ call.task_id \in created
    /\ Len(tasks) = 1

\* whether a task satisfies every dimension that is present in a filter
Satisfies(t, f) ==
    /\ (f.status # None => (t.status # None /\ Val(t.status) \in Val(f.status)))
    /\ (f.min_priority # None => (t.priority # None /\ Val(t.priority) >= Val(f.min_priority)))
    /\ (f.max_priority # None => (t.priority # None /\ Val(t.priority) <= Val(f.max_priority)))
    /\ (f.has_due_date # None => ((t.due_date # None) = Val(f.has_due_date)))

\* C5: get_tasks(filter) returns exactly the tasks that satisfy every filter
\* dimension that is present (a present status set constrains even when it
\* is empty), and every task when there is no filter.
C5_FilterExact ==
    /\ GetTasks(tasks, None).kind = "return"
    /\ Range(GetTasks(tasks, None).list) = Range(tasks)
    /\ \A f \in AllFilters :
         /\ GetTasks(tasks, Some(f)).kind = "return"
         /\ Range(GetTasks(tasks, Some(f)).list) = {t \in Range(tasks) : Satisfies(t, f)}

\* a before b is in order: priority descending, then created_at descending
InOrder(a, b) ==
    \/ (a.priority # None /\ b.priority # None /\ Val(a.priority) > Val(b.priority))
    \/ (a.priority = b.priority /\ a.created_at >= b.created_at)

\* C6: the sequence get_tasks returns is ordered by priority descending
\* and, among equal priorities, by created_at descending.
C6_Sorted ==
    \A fo \in {None} \cup {Some(f) : f \in AllFilters} :
        LET r == GetTasks(tasks, fo)
        IN  r.kind = "return"
              => \A i, j \in 1..Len(r.list) : i < j => InOrder(r.list[i], r.list[j])

\* C6 happens: get_tasks has returned two tasks, the later-created one first
\* because an update raised its priority
C6_Witness ==
    /\ call.op = "get_tasks"
    /\ ret.kind = "return"
    /\ Len(ret.list) = 2
    /\ ret.list[1].id = Uuid4(2)
    /\ ret.list[1].title = Some("a")
    /\ ret.list[1].created_at = ret.list[2].created_at
    /\ ret.list[1].priority = Some(MaxPriority)
    /\ ret.list[2].priority = Some(DefaultPriority)

\* the tasks the slots resolve to, in slot order: a slot with no task_id
\* and a task_id that no longer resolves are skipped
RECURSIVE ResolvedInSlotOrder(_, _)
ResolvedInSlotOrder(slots, ts) ==
    IF slots = << >> THEN << >>
    ELSE LET s == Head(slots)
             here == IF s.task_id # None /\ Resolves(ts, Val(s.task_id))
                     THEN <<CHOOSE t \in Range(ts) : t.id = Val(s.task_id)>>
                     ELSE << >>
         IN  here \o ResolvedInSlotOrder(Tail(slots), ts)

\* C7: get_scheduled_tasks returns the tasks resolved from today's slots in
\* slot order, skipping unbound slots and ids that no longer resolve, the
\* empty sequence when there is no plan; it never raises and changes no store.
C7_ScheduledInSlotOrder ==
    [][call'.op = "get_scheduled_tasks"
       => (/\ ret' = ReturnsList(ResolvedInSlotOrder(TodaySlots, tasks))
           /\ (plans[today] = None => ret'.list = << >>)
           /\ tasks' = tasks /\ tasksFile' = tasksFile
           /\ plans' = plans /\ plansFile' = plansFile)]_vars

\* C7 happens: of two slots, the first is bound to a task deleted since and
\* the second to a task of the store; get_scheduled_tasks returned that one task
C7_Witness ==
    /\ call.op = "get_scheduled_tasks"
    /\ Len(TodaySlots) = 2
    /\ TodaySlots[1].task_id # None
    /\ Val(TodaySlots[1].task_id) \in created
    /\ ~Resolves(tasks, Val(TodaySlots[1].task_id))
    /\ TodaySlots[2].task_id # None
    /\ Resolves(tasks, Val(TodaySlots[2].task_id))
    /\ Len(ret.list) = 1
    /\ ret.list[1].id = Val(TodaySlots[2].task_id)

\* the task_ids of today's slots
TodayTaskIds == {Val(TodaySlots[i].task_id) : i \in {k \in 1..Len(TodaySlots) : TodaySlots[k].task_id # None}}

\* C8: get_unscheduled_tasks returns exactly the tasks whose id is the
\* task_id of none of today's slots, so every task of the store is in
\* get_unscheduled_tasks or in get_scheduled_tasks and never in both.
C8_UnscheduledPartition ==
    LET un == GetUnscheduledTasks(plans, today, tasks)
        sch == GetScheduledTasks(plans, today, tasks)
    IN  /\ un.kind = "return"
        /\ Range(un.list) = {t \in Range(tasks) : t.id \notin TodayTaskIds}
        /\ \A t \in Range(tasks) : (t \in Range(un.list)) # (t \in Range(sch))

\* the number of slots whose task_id is not null
NonNullSlots(slots) == Cardinality({i \in 1..Len(slots) : slots[i].task_id # None})

\* C9: get_day_summary reports has_plan=false, zero counts and today's date
\* when there is no plan; otherwise the number of slots, the number of
\* slots with a non-null task_id, and their difference.
C9_SummaryCounts ==
    LET r == GetDaySummary(plans, today)
    IN  IF plans[today] = None
        THEN /\ r.has_plan = FALSE
             /\ r.total_slots = 0 /\ r.scheduled_slots = 0 /\ r.unscheduled_slots = 0
             /\ r.date = IsoDate(today)
        ELSE /\ r.has_plan = TRUE
             /\ r.total_slots = Len(TodaySlots)
             /\ r.scheduled_slots = NonNullSlots(TodaySlots)
             /\ r.unscheduled_slots = r.total_slots - r.scheduled_slots

\* C10: assign_task_to_slot fails with the not-found error and changes no
\* plan when there is no plan for today, when slot_index is outside
\* 0..len-1 (negative values included) or when task_id does not resolve;
\* otherwise it sets the task_id of the slot at slot_index and nothing else.
C10_AssignChecked ==
    [][call'.op = "assign_task_to_slot"
       => LET i == call'.slot_index
              id == call'.task_id
          IN  IF \/ plans[today] = None
                 \/ i < 0
                 \/ i >= Len(TodaySlots)
                 \/ ~Resolves(tasks, id)
              THEN /\ ret' = Raises("ValueError")
                   /\ plans' = plans
                   /\ plansFile' = plansFile
              ELSE LET after == Val(plans'[today]).time_slots
                   IN  /\ ret'.kind = "return"
                       /\ Len(after) = Len(TodaySlots)
                       /\ after[i + 1] = [TodaySlots[i + 1] EXCEPT !.task_id = Some(id)]
                       /\ \A k \in 1..Len(after) : k # i + 1 => after[k] = TodaySlots[k]]_vars

\* C11: remove_time_slot returns false, raising nothing and changing no plan
\* and not the plans file, when there is no plan for today or slot_index is
\* outside 0..len-1 (negative too); otherwise it returns true and removes
\* exactly the slot at slot_index, the others keeping their order.
C11_RemoveChecked ==
    [][call'.op = "remove_time_slot"
       => LET i == call'.slot_index
          IN  IF \/ plans[today] = None
                 \/ i < 0
                 \/ i >= Len(TodaySlots)
              THEN /\ ret' = ReturnsBool(FALSE)
                   /\ plans' = plans
                   /\ plansFile' = plansFile
              ELSE /\ ret' = ReturnsBool(TRUE)
                   /\ Val(plans'[today]).time_slots =
                        SubSeq(TodaySlots, 1, i) \o SubSeq(TodaySlots, i + 2, Len(TodaySlots))]_vars

\* C12: a successful add_time_slot leaves today's slots as they were (none
\* when there was no plan) followed by the new slot, leaves the plans of other
\* dates alone, and a task_id it was given resolves in the Task Store.
C12_AddAppends ==
    [][(call'.op = "add_time_slot" /\ ret'.kind = "return")
       => /\ plans'[today] # None
          /\ Val(plans'[today]).time_slots = Append(TodaySlots, ret'.val)
          /\ \A d \in Days \ {today} : plans'[d] = plans[d]
          /\ (call'.task_id # None => Resolves(tasks, Val(call'.task_id)))]_vars

\* C13: create_today_plan never fails; it puts under today's date a new plan
\* with no time slots and the given notes, whatever plan was there, and
\* leaves the plans of all other dates unchanged.
C13_CreateReplaces ==
    [][call'.op = "create_today_plan"
       => /\ ret'.kind = "return"
          /\ plans'[today] = Some(ret'.val)
          /\ ret'.val.time_slots = << >>
          /\ ret'.val.notes = call'.notes
          /\ ret'.val.date = IsoDate(today)
          /\ \A d \in Days \ {today} : plans'[d] = plans[d]]_vars

\* create_today_plan replaced a plan on the second day, and the plan of the
\* first day still holds its slot
C13_Witness ==
    /\ call.op = "create_today_plan"
    /\ replaced
    /\ call.notes = Some("n")
    /\ today = 2
    /\ plans[1] # None
    /\ Len(Val(plans[1]).time_slots) = 1

\* C14: after any sequence of calls whose saves succeeded, a store constructed
\* on the backing file starts without raising and holds a collection equal in
\* content and order to the one in memory.
C14_RoundTrip ==
    /\ tasksFile.exists
    /\ LoadTasks(tasksFile) = ReturnsList(tasks)
    /\ LoadPlans(plansFile) = Returns(plans)

\* the creation inputs that fail validation
FailsValidation(in) ==
    \/ StrLen(in.title) = 0
    \/ StrLen(in.title) > 200
    \/ in.priority < 1
    \/ in.priority > 5
    \/ (in.estimate_hours # None /\ Val(in.estimate_hours) <= 0)

\* C15: a create_task that fails validation and an update_task with an
\* unknown id raise and leave the tasks and the tasks file as they were, as
\* does every call that raises; an update_task with a known id applies every
\* field present in the update.
C15_AllOrNothing ==
    [][/\ (call'.op = "create_task" /\ FailsValidation(call'.in))
            => ret' = Raises("ValidationError")
       /\ (call'.op = "update_task" /\ ~Resolves(tasks, call'.task_id))
            => ret' = Raises("ValueError")
       /\ ret'.kind = "raise" => (tasks' = tasks /\ tasksFile' = tasksFile)
       /\ (call'.op = "update_task" /\ Resolves(tasks, call'.task_id))
            => /\ ret'.kind = "return"
               /\ \A f \in DOMAIN call'.updates : ret'.val[f] = call'.updates[f]
               /\ Val(GetTaskById(tasks', call'.task_id)) = ret'.val]_vars

\* a creation with a priority out of range has failed on a store that holds a task
C15_Witness ==
    /\ call.op = "create_task"
    /\ call.in.priority > 5
    /\ ret = Raises("ValidationError")
    /\ Len(tasks) = 1
    /\ tasksFile = SaveTasks(tasks)

\* whether a tasks file holds what the store writes: a JSON list of records
\* that meet the field constraints of Task
GoodTasksFile(file) ==
    /\ file.exists
    /\ file.form = "json"
    /\ \A i \in 1..Len(file.data) :
         LET d == file.data[i]
         IN  /\ d.title # None
             /\ StrLen(Val(d.title)) \in 1..200
             /\ d.priority # None
             /\ Val(d.priority) \in 1..5
             /\ d.status # None
             /\ Val(d.status) \in {"pending", "in_progress", "completed"}
             /\ (d.estimate_hours # None => Val(d.estimate_hours) > 0)

\* whether a plans file holds what the store writes
GoodPlansFile(file) == file.exists /\ file.form = "json"

\* C16: constructing a store never raises because of its backing file: on a
\* file that is missing, unreadable, unparseable, or JSON of another shape or
\* with wrong field values, the store starts with an empty collection.
C16_StartNeverFails ==
    [][/\ call'.op = "TaskManager"
            => /\ ret'.kind = "return"
               /\ (~GoodTasksFile(tasksFile) => tasks' = << >>)
       /\ call'.op = "DayPlanner"
            => /\ ret'.kind = "return"
               /\ (~GoodPlansFile(plansFile) => plans' = [d \in Days |-> None])]_vars

\* C17: every task of the store has a title of 1 to 200 characters, a
\* priority in 1..5, a status of the closed set, and an estimate that is
\* absent or positive.
C17_TasksValid ==
    \A i \in 1..Len(tasks) :
        LET t == tasks[i]
        IN  /\ t.title # None
            /\ StrLen(Val(t.title)) \in 1..200
            /\ t.priority # None
            /\ Val(t.priority) \in 1..5
            /\ t.status # None
            /\ Val(t.status) \in {"pending", "in_progress", "completed"}
            /\ (t.estimate_hours # None => Val(t.estimate_hours) > 0)

\* C18: updated_at >= created_at for every task and plan; created_at of a
\* record never changes; a successful update_task, add_time_slot,
\* assign_task_to_slot or remove_time_slot leaves updated_at of the record
\* strictly greater than it was.
C18_Timestamps ==
    [][/\ \A i \in 1..Len(tasks') : tasks'[i].updated_at >= tasks'[i].created_at
       /\ \A d \in Days : plans'[d] # None
            => Val(plans'[d]).updated_at >= Val(plans'[d]).created_at
       /\ \A i \in 1..Len(tasks), j \in 1..Len(tasks') :
            tasks[i].id = tasks'[j].id => tasks'[j].created_at = tasks[i].created_at
       /\ \A d \in Days : (plans[d] # None /\ plans'[d] # None /\ call'.op # "create_today_plan")
            => Val(plans'[d]).created_at = Val(plans[d]).created_at
       /\ (call'.op = "update_task" /\ ret'.kind = "return")
            => ret'.val.updated_at > Val(GetTaskById(tasks, call'.task_id)).updated_at
       /\ (/\ call'.op \in {"add_time_slot", "assign_task_to_slot"}
           /\ ret'.kind = "return"
           /\ plans[today] # None)
            => Val(plans'[today]).updated_at > Val(plans[today]).updated_at
       /\ (call'.op = "remove_time_slot" /\ ret' = ReturnsBool(TRUE))
            => Val(plans'[today]).updated_at > Val(plans[today]).updated_at]_vars

\* C19: a mutating call whose write succeeds leaves the backing file equal to
\* the collection in memory; when the write fails the call still returns its
\* normal result, the change stays in memory and the file keeps the content it
\* had.
C19_FileFollowsMemory ==
    [][/\ call'.op = "create_task"
            => /\ ret'.kind = "return"
               /\ tasks' = Append(tasks, ret'.val)
               /\ tasksFile' = IF disk = "ok" THEN SaveTasks(tasks') ELSE tasksFile
       /\ (call'.op = "update_task" /\ Resolves(tasks, call'.task_id))
            => /\ ret'.kind = "return"
               /\ GetTaskById(tasks', call'.task_id) = Some(ret'.val)
               /\ tasksFile' = IF disk = "ok" THEN SaveTasks(tasks') ELSE tasksFile
       /\ (call'.op = "delete_task" /\ Resolves(tasks, call'.task_id))
            => /\ ret' = ReturnsBool(TRUE)
               /\ ~Resolves(tasks', call'.task_id)
               /\ tasksFile' = IF disk = "ok" THEN SaveTasks(tasks') ELSE tasksFile
       /\ call'.op = "create_today_plan"
            => /\ ret'.kind = "return"
               /\ plans'[today] = Some(ret'.val)
               /\ plansFile' = IF disk = "ok" THEN SavePlans(plans') ELSE plansFile
       /\ call'.op = "add_time_slot"
            => /\ ret'.kind = "return"
               /\ Val(plans'[today]).time_slots = Append(TodaySlots, ret'.val)
               /\ plansFile' = IF disk = "ok" THEN SavePlans(plans') ELSE plansFile
       /\ (call'.op = "remove_time_slot" /\ ret' = ReturnsBool(TRUE))
            => /\ Len(Val(plans'[today]).time_slots) = Len(TodaySlots) - 1
               /\ plansFile' = IF disk = "ok" THEN SavePlans(plans') ELSE plansFile]_vars

\* the methods of the two stores
PlanOps ==
    {"create_today_plan", "get_today_plan", "get_or_create_today_plan", "add_time_slot",
     "assign_task_to_slot", "remove_time_slot", "get_scheduled_tasks",
     "get_unscheduled_tasks", "get_day_summary"}
TaskOps == {"create_task", "get_task_by_id", "get_tasks", "update_task", "delete_task"}
PlanQueries == {"get_today_plan", "get_scheduled_tasks", "get_unscheduled_tasks", "get_day_summary"}

\* a slot of today is bound to a task that was created and has been deleted
StaleSlot ==
    \E i \in 1..Len(TodaySlots) :
        /\ TodaySlots[i].task_id # None
        /\ Val(TodaySlots[i].task_id) \in created
        /\ ~Resolves(tasks, Val(TodaySlots[i].task_id))

\* C20: no method of the Day Plan Store changes the tasks or the tasks file,
\* no method of the Task Store changes a plan or the plans file (so a deleted
\* task's id stays in its slot), and with such a stale slot every query of
\* the Day Plan Store returns without raising.
C20_StoresIsolated ==
    [][/\ call'.op \in PlanOps => (tasks' = tasks /\ tasksFile' = tasksFile)
       /\ call'.op \in TaskOps => (plans' = plans /\ plansFile' = plansFile)
       /\ (call'.op \in PlanQueries /\ StaleSlot) => ret'.kind = "return"]_vars

====
